---- MODULE Spec2Model ----
(***************************************************************************)
(* State-machine model of src/ab.py, the PGVCL document assistant.         *)
(*                                                                         *)
(* The script is re-executed from its first line on every user interaction *)
(* (Streamlit's execution model).  One execution is a "pass".  A pass is   *)
(* started by an event on a control that the previous pass put on screen,  *)
(* and then runs in steps, so that passes of different sessions interleave *)
(* at the file system:                                                     *)
(*    RunScript   lines 215-224 up to the directory listing                *)
(*    AdminDelete the os.remove of lines 138-145                           *)
(*    UserLoad    lines 166-193, load_document and generate_response       *)
(* Widget values live in the session between passes; a widget that a       *)
(* completed pass did not render loses its value.                          *)
(***************************************************************************)
EXTENDS Integers, Sequences, FiniteSets, TLC

\* ------------------------------------------------------------------ bounds
\* A session accepts no further event once its transcript holds MaxChat entries.
MaxChat == 4

\* The browser sessions.
Sessions == {"s1", "s2"}

\* ------------------------------------------------------- optional values
\* Python's None and a present value.
None == <<>>
Some(x) == <<x>>
IsNone(o) == o = <<>>
Val(o) == o[1]

\* ----------------------------------------------------------- input sets
\* File names are sequences of characters, contents are sequences of bytes.
A_PDF == <<"a", ".", "p", "d", "f">>
B_PDF == <<"b", ".", "p", "d", "f">>
C_PDF_UPPER == <<"c", ".", "P", "D", "F">>
D_TXT == <<"d", ".", "t", "x", "t">>
FileNames == {A_PDF, B_PDF, C_PDF_UPPER, D_TXT}
EmptyBytes == <<>>
PdfBytes == <<37>>
PdfBytes2 == <<37, 80>>
\* The files an operator has at hand to upload.
Uploads ==
  {[name |-> A_PDF, data |-> EmptyBytes], [name |-> A_PDF, data |-> PdfBytes],
   [name |-> B_PDF, data |-> PdfBytes], [name |-> C_PDF_UPPER, data |-> PdfBytes],
   [name |-> D_TXT, data |-> PdfBytes]}
Questions == {"q"}
\* What the remote endpoint may answer: text (possibly empty), a block, an exception.
Responses ==
  {[kind |-> "text", text |-> t] : t \in {"", "ans"}}
    \cup {[kind |-> "blocked", text |-> ""], [kind |-> "exception", text |-> ""]}
Usernames == {"admin", "Admin"}
Passwords == {"password123", "password"}

\* ------------------------------------------------------ program constants
ADMIN_USERNAME == "admin"
ADMIN_PASSWORD == "password123"
\* The text of lines 39-45, shortened to its opening words.
SYSTEM_PROMPT == "You are a helpful assistant"
NO_DOCUMENT_REPLY == "Please select a PGVCL document to ask questions about."
PAGES == {"User Side", "Admin Side"}
DOT_PDF == <<".", "p", "d", "f">>
UPLOADER_TYPES == {<<"p", "d", "f">>}

VARIABLES
  uploaded_docs,          \* the UPLOAD_FOLDER directory: sequence of [name, data]
  page,                   \* per session: value of the page radio
  authentication_status,  \* per session: "None", "True", "False"
  chat_history,           \* per session: sequence of [role, content]
  document_data,          \* per session: None or Some(bytes)
  uploaded_file,          \* per session: value of the file uploader, None or Some([name, data])
  selected_document,      \* per session: value of the document picker, <<>> for ""
  prompt_input,           \* per session: value of the question box
  screen,                 \* per session: the controls on screen: "login", "admin", "picker", "question"
  files,                  \* per session: the documents listed with a Delete button
  available_documents,    \* per session: the options of the document picker on screen
  pc,                     \* per session: "new", "stopped", "idle", "run", "delete", "load"
  event,                  \* per session: the event that started the current pass
  messages,               \* per session: the notices of the current pass
  request,                \* per session: None or Some(request sent to the endpoint in this pass)
  api_key,                \* whether GOOGLE_AI_API_KEY is set in the process environment
  session_state,          \* per session: the keys of st.session_state that lines 23-31 have set
  tombstones              \* names deleted on the admin screen and not uploaded anew since

vars ==
  <<uploaded_docs, page, authentication_status, chat_history, document_data,
    uploaded_file, selected_document, prompt_input, screen, files,
    available_documents, pc, event, messages, request, api_key, session_state,
    tombstones>>

\* ------------------------------------------------------------ notices
Msg(level, text, file) == [level |-> level, text |-> text, file |-> file]
NoFile == <<>>

\* ------------------------------------------------------- the file system
\* os.listdir(UPLOAD_FOLDER): the directory's entries in enumeration order.
listdir(docs) == [i \in 1..Len(docs) |-> docs[i].name]

Exists(docs, name) == \E i \in 1..Len(docs) : docs[i].name = name

\* A write that adds a directory entry even when the name exists.
write_file_append(docs, name, data) ==
  Append(docs, [name |-> name, data |-> data])

\* open(path, "wb") and write: truncates an existing file, else adds an entry.
write_file(docs, name, data) ==
  IF Exists(docs, name)
    THEN [i \in 1..Len(docs) |->
            IF docs[i].name = name THEN [name |-> name, data |-> data] ELSE docs[i]]
    ELSE Append(docs, [name |-> name, data |-> data])

\* os.remove(path) of an existing file.
remove_file(docs, name) == SelectSeq(docs, LAMBDA e : e.name # name)

\* open(path, "rb") and read of an existing file.
read_file(docs, name) ==
  (CHOOSE e \in {docs[i] : i \in 1..Len(docs)} : e.name = name).data

\* str.endswith
endswith(f, suffix) ==
  /\ Len(f) >= Len(suffix)
  /\ SubSeq(f, Len(f) - Len(suffix) + 1, Len(f)) = suffix

\* [f for f in os.listdir(UPLOAD_FOLDER) if f.endswith(".pdf")]
pdf_files(docs) == SelectSeq(listdir(docs), LAMBDA f : endswith(f, DOT_PDF))

Range(q) == {q[i] : i \in 1..Len(q)}

\* How often a name occurs in a listing.
Count(q, x) == Cardinality({i \in 1..Len(q) : q[i] = x})

\* str.lower on one character of the alphabet used here.
lower_char(c) ==
  CASE c = "P" -> "p"
    [] c = "D" -> "d"
    [] c = "F" -> "f"
    [] OTHER -> c

\* The part of a file name after its last dot.
extension(name) ==
  LET dots == {i \in 1..Len(name) : name[i] = "."}
  IN IF dots = {} THEN <<>>
     ELSE LET last == CHOOSE i \in dots : \A j \in dots : j <= i
          IN SubSeq(name, last + 1, Len(name))

\* st.file_uploader(..., type=["pdf"]): the extension is compared in lower case.
uploader_accepts(name) ==
  LET ext == extension(name)
  IN [i \in 1..Len(ext) |-> lower_char(ext[i])] \in UPLOADER_TYPES

\* ------------------------------------------------------- authentication
\* check_password() without the test of line 53: the form is evaluated on
\* every pass, and a pass without a matching login leaves the status False.
check_password_status_unguarded(status, clicked, username, password) ==
  IF clicked /\ username = ADMIN_USERNAME /\ password = ADMIN_PASSWORD
    THEN "True"
    ELSE "False"

\* check_password(): the status it leaves, given whether the Login button
\* was clicked in this pass and what the form held.
check_password_status(status, clicked, username, password) ==
  IF status = "None"
    THEN IF clicked
           THEN IF username = ADMIN_USERNAME /\ password = ADMIN_PASSWORD
                  THEN "True"
                  ELSE "False"
           ELSE status
    ELSE status

\* check_password(): whether it draws the login form.
check_password_form(status) == status = "None"

\* check_password() with the final else of lines 70-71 returning True.
check_password_result_else_true(status, clicked, username, password) ==
  IF status = "None"
    THEN IF clicked /\ username = ADMIN_USERNAME /\ password = ADMIN_PASSWORD
           THEN "rerun"
           ELSE "False"
    ELSE "True"

\* check_password(): "rerun" when it calls st.rerun(), else its return value.
check_password_result(status, clicked, username, password) ==
  IF status = "None"
    THEN IF clicked /\ username = ADMIN_USERNAME /\ password = ADMIN_PASSWORD
           THEN "rerun"
           ELSE "False"
    ELSE IF status = "True" THEN "True" ELSE "False"

\* ----------------------------------------------------------- generation
\* The message of lines 88-96 with the question alone as its text part.
Contents_question_only(prompt, data, system_prompt) ==
  [role |-> "user",
   mime_type |-> "application/pdf",
   data |-> data,
   text |-> prompt]

\* The one message sent to the endpoint.
Contents(prompt, data, system_prompt) ==
  [role |-> "user",
   mime_type |-> "application/pdf",
   data |-> data,
   text |-> system_prompt \o "\n" \o prompt]

\* Python truthiness of an optional bytes value and of an optional string.
TruthyBytes(o) == ~IsNone(o) /\ Val(o) # EmptyBytes
TruthyStr(o) == ~IsNone(o) /\ Val(o) # ""

\* generate_response returning the error text instead of None at lines 110-112
\* and the block reason instead of None at lines 104-107.
generate_response_error_text(prompt, document, system_prompt, response) ==
  IF ~TruthyBytes(document)
    THEN [ret |-> Some(NO_DOCUMENT_REPLY), request |-> None, notices |-> {}]
    ELSE LET req == Some(Contents(prompt, Val(document), system_prompt))
         IN CASE response.kind = "exception" ->
                   [ret |-> Some("Error generating response"), request |-> req,
                    notices |-> {Msg("error", "Error generating response", NoFile)}]
              [] response.kind = "blocked" ->
                   [ret |-> Some("The query was blocked"), request |-> req,
                    notices |-> {Msg("warning", "The query was blocked", NoFile)}]
              [] OTHER ->
                   [ret |-> Some(response.text), request |-> req, notices |-> {}]

\* generate_response(prompt, model, document_data, system_prompt), with the
\* endpoint answering `response` if it is called: the value returned, the
\* request sent (None if the endpoint is not called) and the notices shown.
generate_response(prompt, document, system_prompt, response) ==
  IF ~TruthyBytes(document)
    THEN [ret |-> Some(NO_DOCUMENT_REPLY), request |-> None, notices |-> {}]
    ELSE LET req == Some(Contents(prompt, Val(document), system_prompt))
         IN CASE response.kind = "exception" ->
                   [ret |-> None, request |-> req,
                    notices |-> {Msg("error", "Error generating response", NoFile)}]
              [] response.kind = "blocked" ->
                   [ret |-> None, request |-> req,
                    notices |-> {Msg("warning", "The query was blocked", NoFile)}]
              [] OTHER ->
                   [ret |-> Some(response.text), request |-> req, notices |-> {}]

\* Lines 191-193 with the transcript assigned the new round instead of extended.
append_round_replace(history, user_prompt, gemini_response) ==
  IF TruthyStr(gemini_response)
    THEN <<[role |-> "user", content |-> user_prompt],
           [role |-> "model", content |-> Val(gemini_response)]>>
    ELSE history

\* Lines 191-193 with the two appends in the other order.
append_round_model_first(history, user_prompt, gemini_response) ==
  IF TruthyStr(gemini_response)
    THEN history \o <<[role |-> "model", content |-> Val(gemini_response)],
                      [role |-> "user", content |-> user_prompt]>>
    ELSE history

\* Lines 191-193: what user_page makes of the value generate_response returned.
append_round(history, user_prompt, gemini_response) ==
  IF TruthyStr(gemini_response)
    THEN history \o <<[role |-> "user", content |-> user_prompt],
                      [role |-> "model", content |-> Val(gemini_response)]>>
    ELSE history

\* ------------------------------------------------------------- passes
Ev(kind, username, password, filename) ==
  [kind |-> kind, username |-> username, password |-> password, filename |-> filename]
NoEvent == Ev("none", "", "", NoFile)
RerunEvent == Ev("rerun", "", "", NoFile)

\* The keys of st.session_state that lines 23-31 set.
SESSION_KEYS == {"model", "chat_history", "authentication_status"}

\* Lines 14-31 with the credential set: the state of sessions whose first pass
\* has drawn the user page; lines 35-36: an empty folder.
Init ==
  /\ uploaded_docs = <<>>
  /\ api_key = TRUE
  /\ session_state = [s \in Sessions |-> SESSION_KEYS]
  /\ page = [s \in Sessions |-> "User Side"]
  /\ authentication_status = [s \in Sessions |-> "None"]
  /\ chat_history = [s \in Sessions |-> <<>>]
  /\ document_data = [s \in Sessions |-> None]
  /\ uploaded_file = [s \in Sessions |-> None]
  /\ selected_document = [s \in Sessions |-> <<>>]
  /\ prompt_input = [s \in Sessions |-> ""]
  /\ screen = [s \in Sessions |-> {"picker"}]
  /\ files = [s \in Sessions |-> <<>>]
  /\ available_documents = [s \in Sessions |-> <<>>]
  /\ pc = [s \in Sessions |-> "idle"]
  /\ event = [s \in Sessions |-> NoEvent]
  /\ messages = [s \in Sessions |-> {}]
  /\ request = [s \in Sessions |-> None]
  /\ tombstones = {}

\* A session takes a further event only while the round it may add fits the bound.
CanAct(s) == pc[s] = "idle" /\ Len(chat_history[s]) + 2 <= MaxChat

\* A picker that keeps its value whatever its options are.
selectbox_keep(value, drawn_options, options) == value

\* The selectbox of lines 161-163: it keeps its value while its options are the
\* ones it was drawn with, and falls back to the first option "" otherwise.
selectbox(value, drawn_options, options) ==
  IF options = drawn_options THEN value ELSE <<>>

\* Lines 120-127: the uploader's file, if any, is written on every pass.
admin_save(docs, upl, io_ok) ==
  IF IsNone(upl) \/ ~io_ok THEN docs
  ELSE write_file(docs, Val(upl).name, Val(upl).data)

admin_save_notices(upl, io_ok) ==
  IF IsNone(upl) THEN {}
  ELSE IF io_ok THEN {Msg("success", "File saved", Val(upl).name)}
       ELSE {Msg("error", "Error saving file", Val(upl).name)}

\* Lines 220-222 with check_password and admin_page up to the Delete buttons.
AdminPass(s, ev, upl) ==
  LET st == authentication_status[s]
      clicked == ev.kind = "login"
      res == check_password_result(st, clicked, ev.username, ev.password)
  IN /\ authentication_status' =
          [authentication_status EXCEPT
             ![s] = check_password_status(st, clicked, ev.username, ev.password)]
     /\ request' = [request EXCEPT ![s] = None]
     /\ UNCHANGED <<chat_history, document_data>>
     /\ CASE res = "rerun" ->
               \* st.rerun() of line 61: the pass is abandoned and started again
               /\ pc' = [pc EXCEPT ![s] = "run"]
               /\ event' = [event EXCEPT ![s] = RerunEvent]
               /\ messages' = [messages EXCEPT
                                 ![s] = {Msg("success", "Logged in as admin", NoFile)}]
               /\ uploaded_file' = [uploaded_file EXCEPT ![s] = upl]
               /\ UNCHANGED <<uploaded_docs, selected_document, prompt_input, screen,
                              files, available_documents>>
          [] res = "False" ->
               /\ pc' = [pc EXCEPT ![s] = "idle"]
               /\ event' = [event EXCEPT ![s] = NoEvent]
               /\ messages' = [messages EXCEPT
                                 ![s] = IF st = "None" /\ clicked
                                          THEN {Msg("error", "Incorrect Username/Password", NoFile)}
                                          ELSE {}]
               /\ screen' = [screen EXCEPT
                               ![s] = IF check_password_form(st) THEN {"login"} ELSE {}]
               \* the pass ends without the uploader, the picker and the question box
               /\ uploaded_file' = [uploaded_file EXCEPT ![s] = None]
               /\ files' = [files EXCEPT ![s] = <<>>]
               /\ selected_document' = [selected_document EXCEPT ![s] = <<>>]
               /\ prompt_input' = [prompt_input EXCEPT ![s] = ""]
               /\ available_documents' = [available_documents EXCEPT ![s] = <<>>]
               /\ UNCHANGED uploaded_docs
          [] OTHER ->
               \E io_ok \in BOOLEAN :
                 LET docs == admin_save(uploaded_docs, upl, io_ok)
                     listing == pdf_files(docs)
                     pressed == ev.kind = "delete" /\ ev.filename \in Range(listing)
                 IN /\ uploaded_docs' = docs
                    /\ files' = [files EXCEPT ![s] = listing]
                    /\ uploaded_file' = [uploaded_file EXCEPT ![s] = upl]
                    /\ event' = [event EXCEPT ![s] = IF pressed THEN ev ELSE NoEvent]
                    /\ screen' = [screen EXCEPT ![s] = {"admin"}]
                    /\ selected_document' = [selected_document EXCEPT ![s] = <<>>]
                    /\ prompt_input' = [prompt_input EXCEPT ![s] = ""]
                    /\ available_documents' = [available_documents EXCEPT ![s] = <<>>]
                    /\ messages' = [messages EXCEPT
                                      ![s] = admin_save_notices(upl, io_ok)
                                             \cup IF listing = <<>>
                                                    THEN {Msg("info", "No documents uploaded yet.", NoFile)}
                                                    ELSE {}]
                    /\ pc' = [pc EXCEPT ![s] = IF pressed THEN "delete" ELSE "idle"]

\* Lines 223-224 with user_page up to the document picker (lines 154-166).
UserPass(s, ev, sel, prm) ==
  LET listing == pdf_files(uploaded_docs)
      chosen == selectbox(sel, available_documents[s], listing)
  IN /\ available_documents' = [available_documents EXCEPT ![s] = listing]
     /\ selected_document' = [selected_document EXCEPT ![s] = chosen]
     /\ event' = [event EXCEPT ![s] = IF chosen = <<>> THEN NoEvent ELSE ev]
     /\ request' = [request EXCEPT ![s] = None]
     /\ uploaded_file' = [uploaded_file EXCEPT ![s] = None]
     /\ files' = [files EXCEPT ![s] = <<>>]
     /\ UNCHANGED <<uploaded_docs, authentication_status, chat_history>>
     /\ IF chosen = <<>>
          THEN /\ document_data' = [document_data EXCEPT ![s] = None]
               /\ prompt_input' = [prompt_input EXCEPT ![s] = ""]
               /\ screen' = [screen EXCEPT ![s] = {"picker"}]
               /\ messages' = [messages EXCEPT
                                 ![s] = {Msg("info", "Please select a PGVCL document", NoFile)}]
               /\ pc' = [pc EXCEPT ![s] = "idle"]
          ELSE /\ prompt_input' = [prompt_input EXCEPT ![s] = prm]
               /\ messages' = [messages EXCEPT ![s] = {}]
               /\ pc' = [pc EXCEPT ![s] = "load"]
               /\ UNCHANGED <<document_data, screen>>

\* A script that goes on without the credential (no st.stop() at line 18).
startup_stops_never(key) == FALSE

\* Lines 16-18: the pass stops when the credential is not set.
startup_stops(key) == ~key

StartupError == Msg("error", "Please set the GOOGLE_AI_API_KEY environment variable.", NoFile)

\* Lines 17-18: st.error and st.stop(); nothing below line 18 is executed.
Halt(s) ==
  /\ pc' = [pc EXCEPT ![s] = "stopped"]
  /\ messages' = [messages EXCEPT ![s] = {StartupError}]
  /\ screen' = [screen EXCEPT ![s] = {}]
  /\ event' = [event EXCEPT ![s] = NoEvent]
  /\ UNCHANGED <<uploaded_docs, page, authentication_status, chat_history, document_data,
                 uploaded_file, selected_document, prompt_input, files,
                 available_documents, request, session_state>>

\* Lines 14-224: one execution of the script, with the widget values the event left.
RunScript(s, pg, ev, upl, sel, prm) ==
  /\ UNCHANGED api_key
  /\ IF startup_stops(api_key)
       THEN Halt(s)
       ELSE /\ session_state' = [session_state EXCEPT ![s] = SESSION_KEYS]
            /\ page' = [page EXCEPT ![s] = pg]
            /\ IF pg = "Admin Side"
                 THEN AdminPass(s, ev, upl)
                 ELSE UserPass(s, ev, sel, prm)

\* A browser opens or reloads the application: the first pass of a session.
Connect(s) ==
  /\ pc[s] \in {"new", "stopped"}
  /\ RunScript(s, "User Side", NoEvent, None, <<>>, "")
  /\ UNCHANGED tombstones

\* ------------------------------------------------------------- events
\* Line 218: the page radio is switched.
SelectPage(s, pg) ==
  /\ CanAct(s)
  /\ pg # page[s]
  /\ RunScript(s, pg, Ev("page", "", "", NoFile), uploaded_file[s],
               selected_document[s], prompt_input[s])
  /\ UNCHANGED tombstones

\* Lines 54-57: the Login button of the form on screen is clicked.
LoginClick(s, username, password) ==
  /\ CanAct(s)
  /\ "login" \in screen[s]
  /\ RunScript(s, page[s], Ev("login", username, password, NoFile), uploaded_file[s],
               selected_document[s], prompt_input[s])
  /\ UNCHANGED tombstones

\* Line 118: a file is put into the uploader of the admin screen.
Upload(s, name, data) ==
  /\ CanAct(s)
  /\ "admin" \in screen[s]
  /\ uploader_accepts(name)
  /\ RunScript(s, page[s], Ev("upload", "", "", name),
               Some([name |-> name, data |-> data]),
               selected_document[s], prompt_input[s])
  /\ tombstones' = tombstones \ {name}

\* Line 138: the Delete button drawn beside a listed document is clicked.
DeleteClick(s, filename) ==
  /\ CanAct(s)
  /\ "admin" \in screen[s]
  /\ filename \in Range(files[s])
  /\ RunScript(s, page[s], Ev("delete", "", "", filename), uploaded_file[s],
               selected_document[s], prompt_input[s])
  /\ UNCHANGED tombstones

\* Lines 161-163: another option of the document picker is chosen.
Pick(s, name) ==
  /\ CanAct(s)
  /\ "picker" \in screen[s]
  /\ name \in Range(available_documents[s]) \cup {<<>>}
  /\ name # selected_document[s]
  /\ RunScript(s, page[s], Ev("pick", "", "", name), uploaded_file[s],
               name, prompt_input[s])
  /\ UNCHANGED tombstones

\* Lines 176-180: the text of the question box is changed and submitted.
Submit(s, question) ==
  /\ CanAct(s)
  /\ "question" \in screen[s]
  /\ question # prompt_input[s]
  /\ RunScript(s, page[s], Ev("ask", "", "", NoFile), uploaded_file[s],
               selected_document[s], question)
  /\ UNCHANGED tombstones

\* st.rerun() of lines 61 and 143: the script starts again with the same widget values.
Rerun(s) ==
  /\ pc[s] = "run"
  /\ RunScript(s, page[s], RerunEvent, uploaded_file[s],
               selected_document[s], prompt_input[s])
  /\ UNCHANGED tombstones

\* An os.remove that does not raise for a missing file.
os_remove_missing_ok(docs, name, io_ok) ==
  IF Exists(docs, name) /\ ~io_ok
    THEN [raised |-> "OSError", docs |-> docs]
    ELSE [raised |-> "", docs |-> remove_file(docs, name)]

\* os.remove(file_path) of line 141: it raises FileNotFoundError when the file
\* is missing and another OSError when it cannot be removed, and removes the
\* file otherwise.  "" stands for no exception.
os_remove(docs, name, io_ok) ==
  IF ~Exists(docs, name)
    THEN [raised |-> "FileNotFoundError", docs |-> docs]
    ELSE IF io_ok
           THEN [raised |-> "", docs |-> remove_file(docs, name)]
           ELSE [raised |-> "OSError", docs |-> docs]

\* Lines 139-145: the try block behind the clicked Delete button.
AdminDelete(s, io_ok) ==
  /\ pc[s] = "delete"
  /\ LET f == event[s].filename
         rm == os_remove(uploaded_docs, f, io_ok)
     IN /\ uploaded_docs' = rm.docs
        /\ IF rm.raised = ""
             THEN \* st.success and the st.rerun() of line 143
                  /\ messages' = [messages EXCEPT
                                    ![s] = @ \cup {Msg("success", "File deleted", f)}]
                  /\ tombstones' = tombstones \cup {f}
                  /\ pc' = [pc EXCEPT ![s] = "run"]
                  /\ event' = [event EXCEPT ![s] = RerunEvent]
             ELSE \* st.error; the loop goes on and the pass ends
                  /\ messages' = [messages EXCEPT
                                    ![s] = @ \cup {Msg("error", "Error deleting file: " \o rm.raised, f)}]
                  /\ pc' = [pc EXCEPT ![s] = "idle"]
                  /\ event' = [event EXCEPT ![s] = NoEvent]
                  /\ UNCHANGED tombstones
  /\ UNCHANGED <<page, authentication_status, chat_history, document_data, uploaded_file,
                 selected_document, prompt_input, screen, files, available_documents,
                 request, api_key, session_state>>

\* load_document, lines 73-81.
load_document(docs, name, io_ok) ==
  IF Exists(docs, name) /\ io_ok THEN Some(read_file(docs, name)) ELSE None

\* Lines 166-193: the picked document is read, and a question in the box is answered.
UserLoad(s, io_ok, response) ==
  /\ pc[s] = "load"
  /\ LET data == load_document(uploaded_docs, selected_document[s], io_ok)
         user_prompt == prompt_input[s]
         g == generate_response(user_prompt, data, SYSTEM_PROMPT, response)
     IN   /\ document_data' = [document_data EXCEPT ![s] = data]
          /\ IF IsNone(data)
               THEN /\ messages' = [messages EXCEPT
                                      ![s] = {Msg("error", "Error loading document", selected_document[s]),
                                              Msg("error", "Failed to load selected document.", NoFile),
                                              Msg("info", "Please select a PGVCL document", NoFile)}]
                    /\ prompt_input' = [prompt_input EXCEPT ![s] = ""]
                    /\ screen' = [screen EXCEPT ![s] = {"picker"}]
                    /\ UNCHANGED <<chat_history, request>>
               ELSE /\ screen' = [screen EXCEPT ![s] = {"picker", "question"}]
                    /\ UNCHANGED prompt_input
                    /\ IF user_prompt # ""
                         THEN /\ chat_history' = [chat_history EXCEPT
                                                    ![s] = append_round(@, user_prompt, g.ret)]
                              /\ request' = [request EXCEPT ![s] = g.request]
                              /\ messages' = [messages EXCEPT ![s] = g.notices]
                         ELSE UNCHANGED <<chat_history, request, messages>>
  /\ pc' = [pc EXCEPT ![s] = "idle"]
  /\ event' = [event EXCEPT ![s] = NoEvent]
  /\ UNCHANGED <<uploaded_docs, page, authentication_status, uploaded_file,
                 selected_document, files, available_documents, tombstones,
                 api_key, session_state>>

\* One step of session s.
Step(s) ==
  \/ \E pg \in PAGES : SelectPage(s, pg)
  \/ \E u \in Usernames, p \in Passwords : LoginClick(s, u, p)
  \/ \E f \in Uploads : Upload(s, f.name, f.data)
  \/ \E filename \in FileNames : DeleteClick(s, filename)
  \/ \E name \in FileNames \cup {<<>>} : Pick(s, name)
  \/ \E question \in Questions \cup {""} : Submit(s, question)
  \/ Rerun(s)
  \/ \E io_ok \in BOOLEAN : AdminDelete(s, io_ok)
  \/ \E io_ok \in BOOLEAN, response \in Responses : UserLoad(s, io_ok, response)

\* One browser session working on the folder, with the full set of inputs.
Next == Step("s1")

Spec == Init /\ [][Next]_vars

\* The process from its start, with or without the credential in its
\* environment: no session has run the script yet and nothing is on screen.
StartupInit ==
  /\ uploaded_docs = <<>>
  /\ api_key \in BOOLEAN
  /\ session_state = [s \in Sessions |-> {}]
  /\ page = [s \in Sessions |-> "User Side"]
  /\ authentication_status = [s \in Sessions |-> "None"]
  /\ chat_history = [s \in Sessions |-> <<>>]
  /\ document_data = [s \in Sessions |-> None]
  /\ uploaded_file = [s \in Sessions |-> None]
  /\ selected_document = [s \in Sessions |-> <<>>]
  /\ prompt_input = [s \in Sessions |-> ""]
  /\ screen = [s \in Sessions |-> {}]
  /\ files = [s \in Sessions |-> <<>>]
  /\ available_documents = [s \in Sessions |-> <<>>]
  /\ pc = [s \in Sessions |-> "new"]
  /\ event = [s \in Sessions |-> NoEvent]
  /\ messages = [s \in Sessions |-> {}]
  /\ request = [s \in Sessions |-> None]
  /\ tombstones = {}

StartupNext == Connect("s1") \/ Step("s1")

StartupSpec == StartupInit /\ [][StartupNext]_vars

\* Two browser sessions on the same folder, their passes interleaved.  The
\* inputs are two versions of one document, one right and one wrong login, and
\* an endpoint that answers or blocks.
SharedUploads ==
  {[name |-> A_PDF, data |-> PdfBytes], [name |-> A_PDF, data |-> PdfBytes2]}
SharedResponses ==
  {[kind |-> "text", text |-> "ans"], [kind |-> "blocked", text |-> ""]}

SharedStep(s) ==
  \/ \E pg \in PAGES : SelectPage(s, pg)
  \/ \E u \in Usernames : LoginClick(s, u, ADMIN_PASSWORD)
  \/ \E f \in SharedUploads : Upload(s, f.name, f.data)
  \/ DeleteClick(s, A_PDF)
  \/ \E name \in {A_PDF, <<>>} : Pick(s, name)
  \/ \E question \in Questions : Submit(s, question)
  \/ Rerun(s)
  \/ \E io_ok \in BOOLEAN : AdminDelete(s, io_ok)
  \/ \E io_ok \in BOOLEAN, response \in SharedResponses : UserLoad(s, io_ok, response)

SharedNext == \E s \in Sessions : SharedStep(s)

SharedSpec == Init /\ [][SharedNext]_vars

\* ---------------------------------------------------------------- claims
SavedNotice(name) == Msg("success", "File saved", name)
DeletedNotice(name) == Msg("success", "File deleted", name)
DeleteErrorNotice(name) == Msg("error", "Error deleting file: FileNotFoundError", name)
BlockedNotice == Msg("warning", "The query was blocked", NoFile)
FailedNotice == Msg("error", "Error generating response", NoFile)

\* A step of session s that runs admin_page or the os.remove of its Delete button.
AdminPageStep(s) ==
  \/ /\ pc[s] \in {"idle", "run"}
     /\ page'[s] = "Admin Side"
     /\ "admin" \in screen'[s]
  \/ pc[s] = "delete"

\* C1: the status starts Unauthenticated; the admin screen is on screen or at
\* work only in a session whose status is Authenticated; and every change of
\* the document store (save or delete) is made by a step of the admin screen
\* of a session that is Authenticated before and after the step.
C1_AdminOnlyAuthenticated ==
  /\ \A s \in Sessions : authentication_status[s] = "None"
  /\ [](\A s \in Sessions :
          ("admin" \in screen[s] \/ pc[s] = "delete")
            => authentication_status[s] = "True")
  /\ [][uploaded_docs' # uploaded_docs
          => \E s \in Sessions :
               /\ authentication_status[s] = "True"
               /\ authentication_status'[s] = "True"
               /\ AdminPageStep(s)]_vars

\* C1 witness: an authenticated session has saved a document from the admin screen.
C1_Witness ==
  \E s \in Sessions :
    /\ authentication_status[s] = "True"
    /\ "admin" \in screen[s]
    /\ \E f \in FileNames : SavedNotice(f) \in messages[s] /\ Exists(uploaded_docs, f)

\* C2: a session that is Rejected and on the admin page can make a further
\* login attempt, and one with the configured credentials makes it Authenticated.
C2_RejectedCanRetry ==
  \A s \in Sessions :
    (authentication_status[s] = "False" /\ page[s] = "Admin Side" /\ CanAct(s))
      => ENABLED (/\ LoginClick(s, ADMIN_USERNAME, ADMIN_PASSWORD)
                  /\ authentication_status'[s] = "True")

\* The texts the endpoint can return.
EndpointTexts == {r.text : r \in {x \in Responses : x.kind = "text"}}

\* Session s ends a pass in which generate_response called the endpoint.
CallStep(s) == pc[s] = "load" /\ pc'[s] = "idle" /\ ~IsNone(request'[s])

\* C3: when a generation call ends Blocked or Failed (exception), the
\* transcript of the session is the same after the call as before it.
C3_BlockedFailedKeepTranscript ==
  [][\A s \in Sessions :
       \A io_ok \in BOOLEAN, r \in Responses :
         (UserLoad(s, io_ok, r) /\ CallStep(s) /\ r.kind \in {"blocked", "exception"})
           => chat_history'[s] = chat_history[s]]_vars

\* C3 witness: a call has ended Blocked or Failed in a session with a transcript.
C3_Witness ==
  \E s \in Sessions :
    /\ ~IsNone(request[s])
    /\ messages[s] \cap {BlockedNotice, FailedNotice} # {}
    /\ chat_history[s] # <<>>

\* C4: whenever a generation call returns text, exactly the two messages
\* {user, question} and {model, that text} are appended, in this order.
C4_TextAppendsRound ==
  [][\A s \in Sessions :
       \A io_ok \in BOOLEAN, r \in Responses :
         (UserLoad(s, io_ok, r) /\ CallStep(s) /\ r.kind = "text")
           => chat_history'[s] =
                chat_history[s] \o <<[role |-> "user", content |-> prompt_input[s]],
                                     [role |-> "model", content |-> r.text]>>]_vars

\* C5: a question asked with no document data (absent or empty) makes no call
\* to the endpoint and appends nothing to the transcript.
C5_NoDocumentFails ==
  [][\A s \in Sessions :
       \A io_ok \in BOOLEAN, r \in Responses :
         (UserLoad(s, io_ok, r) /\ ~TruthyBytes(document_data'[s]))
           => /\ IsNone(request'[s])
              /\ chat_history'[s] = chat_history[s]]_vars

\* C6: every model entry of a transcript is a text returned by the endpoint
\* and follows the user entry it answers.
C6_ModelEntriesFromEndpoint ==
  \A s \in Sessions :
    \A i \in 1..Len(chat_history[s]) :
      chat_history[s][i].role = "model"
        => /\ chat_history[s][i].content \in EndpointTexts
           /\ i > 1
           /\ chat_history[s][i - 1].role = "user"

\* C7: the endpoint is called only in a pass that a question submission
\* started; a pass started by any other event calls nothing and appends nothing.
C7_CallOnlyOnSubmit ==
  [][\A s \in Sessions :
       (pc[s] = "load" /\ pc'[s] = "idle" /\ event[s].kind # "ask")
         => /\ IsNone(request'[s])
            /\ chat_history'[s] = chat_history[s]]_vars

\* C8: a name deleted on the admin screen and not uploaded anew since is not
\* in the folder: no listing shows it and reading it fails.
C8_DeletedStaysDeleted ==
  \A name \in tombstones :
    /\ ~Exists(uploaded_docs, name)
    /\ name \notin Range(pdf_files(uploaded_docs))
    /\ IsNone(load_document(uploaded_docs, name, TRUE))

C10_UploadListedOnce ==
  /\ [](\A name \in FileNames : Count(listdir(uploaded_docs), name) <= 1)
  /\ [][\A s \in Sessions :
          \A f \in Uploads :
            (/\ Upload(s, f.name, f.data)
             /\ SavedNotice(f.name) \in messages'[s]
             /\ endswith(f.name, DOT_PDF))
              => /\ Count(pdf_files(uploaded_docs'), f.name) = 1
                 /\ Count(files'[s], f.name) = 1
                 /\ load_document(uploaded_docs', f.name, TRUE) = Some(f.data)]_vars

\* C10 witness: a.pdf, stored before b.pdf was, has just been uploaded again,
\* now empty, and is still listed once, before b.pdf.
C10_Witness ==
  \E s \in Sessions :
    /\ SavedNotice(A_PDF) \in messages[s]
    /\ files[s] = <<A_PDF, B_PDF>>
    /\ uploaded_docs[1] = [name |-> A_PDF, data |-> EmptyBytes]

\* C11: once a session's status is Authenticated, it is Authenticated after
\* every later step, whoever takes it.
C11_AuthenticatedTerminal ==
  [][\A s \in Sessions :
       authentication_status[s] = "True" => authentication_status'[s] = "True"]_vars

\* C11 witness: an authenticated session has deleted a document, gone back to
\* the user page and had a generation fail there.
C11_Witness ==
  \E s \in Sessions :
    /\ authentication_status[s] = "True"
    /\ page[s] = "User Side"
    /\ FailedNotice \in messages[s]
    /\ tombstones # {}

\* C12: a login attempt with the pair (username, password) leaves the session
\* Authenticated exactly when both equal the configured credentials, and
\* Rejected for every other pair.
C12_LoginDecidedByCredentials ==
  [][\A s \in Sessions :
       \A u \in Usernames, p \in Passwords :
         LoginClick(s, u, p)
           => authentication_status'[s] =
                IF u = ADMIN_USERNAME /\ p = ADMIN_PASSWORD THEN "True" ELSE "False"]_vars

\* One sequence is a prefix of another.
IsPrefix(p, q) == Len(p) <= Len(q) /\ SubSeq(q, 1, Len(p)) = p

\* C13: every step leaves each session's transcript a prefix of what it is
\* after the step: entries are only added at the end, never changed or removed.
C13_TranscriptAppendOnly ==
  [][\A s \in Sessions : IsPrefix(chat_history[s], chat_history'[s])]_vars

\* C13 witness: a session that has logged in and deleted a document holds a
\* transcript of two rounds.
C13_Witness ==
  \E s \in Sessions :
    /\ Len(chat_history[s]) = 4
    /\ authentication_status[s] = "True"
    /\ tombstones # {}

\* C14: a request sent to the endpoint is one user message made of the picked
\* document's bytes as a PDF attachment and the text instructions + line
\* break + question, and nothing else; two sessions that ask the same question
\* about the same bytes send the same request, whatever their transcripts hold.
C14_RequestFromQuestionAndDocument ==
  /\ \A s \in Sessions :
       ~IsNone(request[s])
         => /\ ~IsNone(document_data[s])
            /\ request[s] =
                 Some([role |-> "user",
                       mime_type |-> "application/pdf",
                       data |-> Val(document_data[s]),
                       text |-> SYSTEM_PROMPT \o "\n" \o prompt_input[s]])
  /\ \A s \in Sessions, t \in Sessions :
       (/\ ~IsNone(request[s])
        /\ ~IsNone(request[t])
        /\ prompt_input[s] = prompt_input[t]
        /\ document_data[s] = document_data[t])
         => request[s] = request[t]

\* C14 witness: two sessions with different transcripts, one of them holding
\* an earlier round, have sent the same request.
C14_Witness ==
  \E s \in Sessions, t \in Sessions :
    /\ s # t
    /\ ~IsNone(request[s])
    /\ request[s] = request[t]
    /\ Len(chat_history[s]) = 4
    /\ chat_history[t] = <<>>

\* C15: when the credential is absent, a session either has not run the
\* script or has stopped with the error on screen; no control is on screen,
\* no request has been sent, no key of the session state is set, and the
\* transcript, the status and the folder are untouched.
C15_NoCredentialHalts ==
  ~api_key =>
    \A s \in Sessions :
      /\ pc[s] \in {"new", "stopped"}
      /\ pc[s] = "stopped" => messages[s] = {StartupError}
      /\ screen[s] = {}
      /\ IsNone(request[s])
      /\ session_state[s] = {}
      /\ chat_history[s] = <<>>
      /\ authentication_status[s] = "None"
      /\ uploaded_docs = <<>>

\* C15 witness: a session has run the script without the credential and stopped.
C15_Witness == ~api_key /\ pc["s1"] = "stopped"

\* A pass of session s that draws the user page from its top.
UserRender(s) ==
  /\ page'[s] = "User Side"
  /\ \/ \E name \in FileNames \cup {<<>>} : Pick(s, name)
     \/ \E question \in Questions : Submit(s, question)
     \/ SelectPage(s, "User Side")
     \/ Rerun(s)

\* C16: a generation call sends the bytes the store holds for the picked
\* document when the pass reads it; a pass that starts after the picked
\* document has left the store sets the selection to none, draws no question
\* box, sends nothing and keeps the transcript; a pass whose read finds the
\* document gone does not send anything either.
C16_CallSendsStoredBytes ==
  [][\A s \in Sessions :
       /\ \A io_ok \in BOOLEAN, response \in Responses :
            UserLoad(s, io_ok, response) =>
              /\ CallStep(s) =>
                   /\ Exists(uploaded_docs, selected_document[s])
                   /\ Val(request'[s]).data = read_file(uploaded_docs, selected_document[s])
              /\ ~Exists(uploaded_docs, selected_document[s]) =>
                   /\ IsNone(request'[s])
                   /\ IsNone(document_data'[s])
                   /\ "question" \notin screen'[s]
                   /\ chat_history'[s] = chat_history[s]
       /\ UserRender(s) /\ selected_document[s] # <<>>
            /\ ~Exists(uploaded_docs, selected_document[s]) =>
              /\ selected_document'[s] = <<>>
              /\ IsNone(document_data'[s])
              /\ "question" \notin screen'[s]
              /\ IsNone(request'[s])
              /\ chat_history'[s] = chat_history[s]
              /\ pc'[s] = "idle"]_vars

\* C16 witness: a session that has asked before sends the bytes another
\* session's uploader has written over the picked document.
C16_Witness ==
  \E s, t \in Sessions :
    /\ s # t
    /\ uploaded_file[t] = Some([name |-> A_PDF, data |-> PdfBytes2])
    /\ selected_document[s] = A_PDF
    /\ ~IsNone(request[s])
    /\ Val(request[s]).data = PdfBytes2
    /\ Len(chat_history[s]) = 4
    /\ authentication_status[s] = "None"

\* C17: every stored file whose name the uploader's type filter accepts is in
\* the listing that the admin screen and the user screen draw.
C17_AcceptedUploadListed ==
  \A i \in 1..Len(uploaded_docs) :
    uploader_accepts(uploaded_docs[i].name) =>
      uploaded_docs[i].name \in Range(pdf_files(uploaded_docs))

\* C18: the transcript has even length, and each pair of entries is a user
\* entry followed by a model entry.
C18_RolesAlternate ==
  \A s \in Sessions :
    /\ Len(chat_history[s]) % 2 = 0
    /\ \A i \in 1..Len(chat_history[s]) :
         chat_history[s][i].role = IF i % 2 = 1 THEN "user" ELSE "model"

\* C18 witness: two answered questions are in the transcript of a session
\* whose page is the user page.
C18_Witness ==
  \E s \in Sessions :
    /\ Len(chat_history[s]) = 4
    /\ chat_history[s][1].role = "user" /\ chat_history[s][2].role = "model"
    /\ chat_history[s][3].role = "user" /\ chat_history[s][4].role = "model"
    /\ page[s] = "User Side"
    /\ "question" \in screen[s]

====
